---- MODULE Spec2Model ----
(***************************************************************************)
(* Model of src/src/lib.rs: the wgpu surface owner `State` and the winit   *)
(* application handler `App` that drives it.                               *)
(*                                                                         *)
(* The event loop (winit) and the GPU (wgpu) are the environment.  What    *)
(* the model takes from them:                                              *)
(*  - the loop calls the handlers one at a time; the events and their      *)
(*    arguments are arbitrary;                                             *)
(*  - ActiveEventLoop::exit() only raises a flag: the loop stops at the    *)
(*    end of the iteration, so handlers may still be called after it;      *)
(*  - Surface::configure panics on a zero width or height, and             *)
(*    Surface::get_current_texture panics on a surface that was never      *)
(*    configured; on a configured surface it returns Ok or any of the four *)
(*    SurfaceError kinds.                                                  *)
(***************************************************************************)
EXTENDS Integers, Sequences, FiniteSets, TLC

\* Largest width a window reports (widths range over 0..MaxDim).
MaxDim == 1
\* Largest number of times the loop calls `resumed` (one window each).
MaxResumed == 2
\* Longest list of formats the adapter reports in the check of State::new's
\* choice of format.
MaxFormats == 3

VARIABLES
    platform,   \* build target: cfg(target_arch = "wasm32") or not
    state,      \* App.state : Option<State>
    windows,    \* number of windows created so far (ids 1..windows)
    spawned,    \* wasm32: windows whose State::new future has not finished
    proxy,      \* StateReady messages sent and not yet delivered (by window)
    exiting,    \* event_loop.exit() has been called
    loop,       \* "running", "exited" (run_app returned) or "panicked"
    last,       \* history: the handler call made last and the state before it
    fx,         \* history: the calls the last handler made on wgpu / winit
    attached,   \* history: how many times user_event stored a State
    observed,   \* history: last nonzero window size the attached State saw
    resized,    \* history: last positive Resized size the attached State handled
    cause,      \* history: what called exit() first ("-": nothing yet)
    surface_caps \* history: what get_capabilities told the latest State::new

vars == <<platform, state, windows, spawned, proxy, exiting, loop,
          last, fx, attached, observed, resized, cause, surface_caps>>

----------------------------------------------------------------------------
\* Data

Platforms == {"native", "wasm32"}

\* Widths a window reports
Dims == 0..MaxDim

\* Heights a window reports
Heights == {0, 1, 2}

\* PhysicalSize<u32>
PhysicalSize(w, h) == [width |-> w, height |-> h]

Sizes == {PhysicalSize(w, h) : w \in Dims, h \in Heights}

Positive(sz) == sz.width > 0 /\ sz.height > 0

\* Option<T>
None == [some |-> FALSE]

Some(v) == [some |-> TRUE, val |-> v]

\* wgpu::TextureFormat::is_srgb
is_srgb(f) == f \in {"Bgra8UnormSrgb", "Rgba8UnormSrgb"}

\* surface.get_capabilities(&adapter): the reports the adapter may give
SurfaceCaps ==
    { [formats |-> <<"Bgra8Unorm", "Bgra8UnormSrgb">>,
       present_modes |-> <<"Fifo", "Mailbox">>,
       alpha_modes |-> <<"Opaque">>],
      [formats |-> <<"Rgba8Unorm", "Bgra8Unorm">>,
       present_modes |-> <<"Mailbox", "Fifo">>,
       alpha_modes |-> <<"Auto", "Opaque">>] }

\* wgpu::TextureFormat, the variants used here
Formats == {"Bgra8Unorm", "Bgra8UnormSrgb", "Rgba8Unorm", "Rgba8UnormSrgb"}

\* All sequences over S of length 1..n
NonEmptySeqs(S, n) == UNION {[1..k -> S] : k \in 1..n}

\* surface.get_capabilities(&adapter): every report with at most MaxFormats
\* formats
AllSurfaceCaps ==
    [ formats : NonEmptySeqs(Formats, MaxFormats),
      present_modes : {<<"Fifo", "Mailbox">>, <<"Mailbox", "Fifo">>, <<"Immediate">>},
      alpha_modes : {<<"Opaque">>, <<"Auto", "Opaque">>} ]

----------------------------------------------------------------------------
\* struct State (lib.rs 15-171)

RECURSIVE find_srgb(_, _)
\* formats.iter().copied().find(is_srgb), scanning from index i
find_srgb(formats, i) ==
    IF i > Len(formats) THEN None
    ELSE IF is_srgb(formats[i]) THEN Some(formats[i])
    ELSE find_srgb(formats, i + 1)

RECURSIVE rfind_srgb(_, _)
\* formats.iter().copied().rfind(is_srgb), scanning down from index i
rfind_srgb(formats, i) ==
    IF i < 1 THEN None
    ELSE IF is_srgb(formats[i]) THEN Some(formats[i])
    ELSE rfind_srgb(formats, i - 1)

\* Faulty variant of the choice of format: the last sRGB format, not the first
surface_format_last_srgb(caps) ==
    LET found == rfind_srgb(caps.formats, Len(caps.formats))
    IN  IF found.some THEN found.val ELSE caps.formats[1]

\* .find(is_srgb).unwrap_or(surface_caps.formats[0])
surface_format(caps) ==
    LET found == find_srgb(caps.formats, 1)
    IN  IF found.some THEN found.val ELSE caps.formats[1]

\* wgpu::SurfaceConfiguration built by State::new
SurfaceConfiguration(size, caps) ==
    [ usage |-> "RENDER_ATTACHMENT",
      format |-> surface_format(caps),
      width |-> size.width,
      height |-> size.height,
      present_mode |-> caps.present_modes[1],
      alpha_mode |-> caps.alpha_modes[1],
      desired_maximum_frame_latency |-> 2 ]

\* Surface::configure rejects a zero area: the call panics
configure_panics(config) == config.width = 0 \/ config.height = 0

\* Faulty variant of State::new: surface_configured is true on every target
State_new_always_configured(target, window, size, caps) ==
    LET config == SurfaceConfiguration(size, caps)
    IN  [ surface |-> IF target = "native" THEN Some(config) ELSE None,
          config |-> config,
          size |-> size,
          window |-> window,
          surface_configured |-> TRUE ]

\* State::new: the State built for `window` when the window reports `size` and
\* the adapter reports `caps`.  `surface` is the configuration the wgpu surface
\* holds (None: never configured).
State_new(target, window, size, caps) ==
    LET config == SurfaceConfiguration(size, caps)
    IN  [ surface |-> IF target = "native" THEN Some(config) ELSE None,
          config |-> config,
          size |-> size,
          window |-> window,
          surface_configured |-> (target = "native") ]

\* State::new panics in surface.configure (native only)
State_new_panics(target, size, caps) ==
    target = "native" /\ configure_panics(SurfaceConfiguration(size, caps))

\* Faulty variants of State::resize, against which the properties are tried.
\* (1) skips the reconfiguration when the size did not change
resize_skips_same_size(st, new_size) ==
    IF new_size.width > 0 /\ new_size.height > 0 /\ new_size # st.size
    THEN LET config == [st.config EXCEPT !.width = new_size.width,
                                         !.height = new_size.height]
         IN  [ st |-> [st EXCEPT !.size = new_size,
                                 !.config = config,
                                 !.surface = Some(config)],
               configure |-> <<config>> ]
    ELSE [st |-> st, configure |-> <<>>]

\* (2) calls surface.configure before config is updated
resize_configures_stale(st, new_size) ==
    IF new_size.width > 0 /\ new_size.height > 0
    THEN LET config == [st.config EXCEPT !.width = new_size.width,
                                         !.height = new_size.height]
         IN  [ st |-> [st EXCEPT !.size = new_size,
                                 !.config = config,
                                 !.surface = Some(st.config)],
               configure |-> <<st.config>> ]
    ELSE [st |-> st, configure |-> <<>>]

\* (3) copies config.width/height from self.size before self.size is updated
resize_config_from_old_size(st, new_size) ==
    IF new_size.width > 0 /\ new_size.height > 0
    THEN LET config == [st.config EXCEPT !.width = st.size.width,
                                         !.height = st.size.height]
         IN  [ st |-> [st EXCEPT !.size = new_size,
                                 !.config = config,
                                 !.surface = Some(config)],
               configure |-> <<config>> ]
    ELSE [st |-> st, configure |-> <<>>]

\* (4) leaves config.height as it was
resize_keeps_config_height(st, new_size) ==
    IF new_size.width > 0 /\ new_size.height > 0
    THEN LET config == [st.config EXCEPT !.width = new_size.width]
         IN  [ st |-> [st EXCEPT !.size = new_size,
                                 !.config = config,
                                 !.surface = Some(config)],
               configure |-> <<config>> ]
    ELSE [st |-> st, configure |-> <<>>]

\* State::resize: the new State and the surface.configure calls issued
resize(st, new_size) ==
    IF new_size.width > 0 /\ new_size.height > 0
    THEN LET config == [st.config EXCEPT !.width = new_size.width,
                                         !.height = new_size.height]
         IN  [ st |-> [st EXCEPT !.size = new_size,
                                 !.config = config,
                                 !.surface = Some(config)],
               configure |-> <<config>> ]
    ELSE [st |-> st, configure |-> <<>>]

\* Faulty variant of State::input: reports a close request as handled
input_takes_close(st, event) == event.kind = "CloseRequested"

\* State::input
input(st, event) == FALSE

\* State::update
update(st) == st

\* What surface.get_current_texture() can answer in State::render
RenderOutcomes(st) ==
    IF st.surface.some
    THEN {"Ok", "Lost", "Outdated", "OutOfMemory", "Timeout"}
    ELSE {"Panic"}

\* The calls a handler made on the surface, the queue, the loop and the window
\* (order: the calls of State::render, in the order it made them)
NoFx ==
    [ configure |-> <<>>, get_current_texture |-> 0, submit |-> 0,
      present |-> 0, exit |-> 0, request_redraw |-> 0, order |-> <<>> ]

\* Faulty variant of State::render: the frame is presented before its
\* command buffer is submitted
render_presents_before_submit(st, outcome) ==
    IF outcome = "Ok"
    THEN [NoFx EXCEPT !.get_current_texture = 1, !.submit = 1, !.present = 1,
                      !.order = <<"get_current_texture", "present", "submit">>]
    ELSE [NoFx EXCEPT !.get_current_texture = 1,
                      !.order = <<"get_current_texture">>]

\* State::render with get_current_texture answering `outcome`: the `?` returns
\* early on an error, otherwise one command buffer is submitted and presented
render(st, outcome) ==
    IF outcome = "Ok"
    THEN [NoFx EXCEPT !.get_current_texture = 1, !.submit = 1, !.present = 1,
                      !.order = <<"get_current_texture", "submit", "present">>]
    ELSE [NoFx EXCEPT !.get_current_texture = 1,
                      !.order = <<"get_current_texture">>]

----------------------------------------------------------------------------
\* impl ApplicationHandler<UserEvent> for App (lib.rs 191-312)

Keys == {"Escape", "Space"}

ElementStates == {"Pressed", "Released"}

\* winit::event::WindowEvent, as far as window_event tells its variants apart
WindowEvents ==
    {[kind |-> "CloseRequested"], [kind |-> "RedrawRequested"], [kind |-> "Focused"]}
    \cup {[kind |-> "KeyboardInput", physical_key |-> k, state |-> e] :
             k \in Keys, e \in ElementStates}
    \cup {[kind |-> "Resized", size |-> sz] : sz \in Sizes}

\* What a handler leaves behind: the State, whether it called exit(), whether
\* it panicked, and the calls it made
Ret(st, exit, panic, calls) ==
    [st |-> st, exit |-> exit, panic |-> panic, fx |-> calls]

\* Faulty variant of the close pattern: the key's ElementState is not matched
close_pattern_any_escape(event) ==
    \/ event.kind = "CloseRequested"
    \/ /\ event.kind = "KeyboardInput"
       /\ event.physical_key = "Escape"

\* The first arm of `match event`: CloseRequested | KeyboardInput { Pressed, Escape }
close_pattern(event) ==
    \/ event.kind = "CloseRequested"
    \/ /\ event.kind = "KeyboardInput"
       /\ event.state = "Pressed"
       /\ event.physical_key = "Escape"

\* arm CloseRequested | Escape: event_loop.exit()
close_requested(st) ==
    Ret(st, TRUE, FALSE, [NoFx EXCEPT !.exit = 1])

\* Faulty variant of the Resized arm: surface_configured follows the size,
\* so a zero-sized Resized clears it
resized_arm_flag_follows_size(st, physical_size) ==
    LET ok == physical_size.width > 0 /\ physical_size.height > 0
        r == resize([st EXCEPT !.surface_configured = ok], physical_size)
    IN  Ret(r.st, FALSE, FALSE, [NoFx EXCEPT !.configure = r.configure])

\* arm WindowEvent::Resized(physical_size)
resized_arm(st, physical_size) ==
    LET r == resize([st EXCEPT !.surface_configured = TRUE], physical_size)
    IN  Ret(r.st, FALSE, FALSE, [NoFx EXCEPT !.configure = r.configure])

\* Faulty variants of the RedrawRequested arm.
\* (1) Lost | Outdated reconfigures with width and height exchanged
redraw_requested_swaps_dims(st, outcome) ==
    IF ~st.surface_configured THEN Ret(st, FALSE, FALSE, NoFx)
    ELSE LET st1 == update(st)
             calls == render(st1, outcome)
         IN  CASE outcome = "Ok" -> Ret(st1, FALSE, FALSE, calls)
               [] outcome \in {"Lost", "Outdated"} ->
                    LET r == resize(st1, [width |-> st1.size.height,
                                          height |-> st1.size.width])
                    IN  Ret(r.st, FALSE, FALSE, [calls EXCEPT !.configure = r.configure])
               [] outcome = "OutOfMemory" ->
                    Ret(st1, TRUE, FALSE, [calls EXCEPT !.exit = 1])
               [] outcome = "Timeout" -> Ret(st1, FALSE, FALSE, calls)
               [] OTHER -> Ret(st1, FALSE, TRUE, calls)

\* (2) Lost | Outdated reconfigures and renders again within the same event
redraw_requested_retries(st, outcome) ==
    IF ~st.surface_configured THEN Ret(st, FALSE, FALSE, NoFx)
    ELSE LET st1 == update(st)
             calls == render(st1, outcome)
         IN  CASE outcome = "Ok" -> Ret(st1, FALSE, FALSE, calls)
               [] outcome \in {"Lost", "Outdated"} ->
                    LET r == resize(st1, st1.size)
                        again == render(r.st, "Ok")
                    IN  Ret(r.st, FALSE, FALSE,
                            [again EXCEPT !.configure = r.configure,
                                          !.get_current_texture = 2,
                                          !.order = calls.order \o again.order])
               [] outcome = "OutOfMemory" ->
                    Ret(st1, TRUE, FALSE, [calls EXCEPT !.exit = 1])
               [] outcome = "Timeout" -> Ret(st1, FALSE, FALSE, calls)
               [] OTHER -> Ret(st1, FALSE, TRUE, calls)

\* (3) Timeout handled in the Lost | Outdated arm
redraw_requested_timeout_reconfigures(st, outcome) ==
    IF ~st.surface_configured THEN Ret(st, FALSE, FALSE, NoFx)
    ELSE LET st1 == update(st)
             calls == render(st1, outcome)
         IN  CASE outcome = "Ok" -> Ret(st1, FALSE, FALSE, calls)
               [] outcome \in {"Lost", "Outdated", "Timeout"} ->
                    LET r == resize(st1, st1.size)
                    IN  Ret(r.st, FALSE, FALSE, [calls EXCEPT !.configure = r.configure])
               [] outcome = "OutOfMemory" ->
                    Ret(st1, TRUE, FALSE, [calls EXCEPT !.exit = 1])
               [] OTHER -> Ret(st1, FALSE, TRUE, calls)

\* arm WindowEvent::RedrawRequested, get_current_texture answering `outcome`
\* ("-" when render is not reached)
redraw_requested(st, outcome) ==
    IF ~st.surface_configured THEN Ret(st, FALSE, FALSE, NoFx)
    ELSE LET st1 == update(st)
             calls == render(st1, outcome)
         IN  CASE outcome = "Ok" -> Ret(st1, FALSE, FALSE, calls)
               [] outcome \in {"Lost", "Outdated"} ->
                    LET r == resize(st1, st1.size)
                    IN  Ret(r.st, FALSE, FALSE, [calls EXCEPT !.configure = r.configure])
               [] outcome = "OutOfMemory" ->
                    Ret(st1, TRUE, FALSE, [calls EXCEPT !.exit = 1])
               [] outcome = "Timeout" -> Ret(st1, FALSE, FALSE, calls)
               [] OTHER -> Ret(st1, FALSE, TRUE, calls)

\* Faulty variant of the guards of window_event: the window id is not compared
route_ignores_window_id(app, window_id, event) ==
    IF ~app.some THEN "none"
    ELSE IF input(app.val, event) THEN "input"
    ELSE "matched"

\* How far window_event gets: "none" (self.state is None), "foreign" (another
\* window's id), "input" (the input hook took the event) or "matched"
route(app, window_id, event) ==
    IF ~app.some THEN "none"
    ELSE IF window_id # app.val.window THEN "foreign"
    ELSE IF input(app.val, event) THEN "input"
    ELSE "matched"

\* The answers get_current_texture may give while this event is handled
\* ({"-"}: render is not called)
TextureOutcomes(app, window_id, event) ==
    IF /\ route(app, window_id, event) = "matched"
       /\ event.kind = "RedrawRequested"
       /\ app.val.surface_configured
    THEN RenderOutcomes(app.val)
    ELSE {"-"}

\* App::window_event on App.state = app
window_event(app, window_id, event, outcome) ==
    IF route(app, window_id, event) # "matched"
    THEN [app |-> app, exit |-> FALSE, panic |-> FALSE, fx |-> NoFx]
    ELSE LET st == app.val
             r == CASE close_pattern(event) -> close_requested(st)
                    [] event.kind = "Resized" -> resized_arm(st, event.size)
                    [] event.kind = "RedrawRequested" -> redraw_requested(st, outcome)
                    [] OTHER -> Ret(st, FALSE, FALSE, NoFx)
         IN  [app |-> Some(r.st), exit |-> r.exit, panic |-> r.panic, fx |-> r.fx]

\* App::user_event
user_event(app, new_state) == Some(new_state)

\* Faulty variants of App::about_to_wait.
\* (1) asks for a redraw only once the surface is marked configured
about_to_wait_if_configured(app) ==
    IF app.some /\ app.val.surface_configured
    THEN [NoFx EXCEPT !.request_redraw = 1]
    ELSE NoFx

\* (2) asks for a redraw whether or not a State is attached
about_to_wait_unconditional(app) == [NoFx EXCEPT !.request_redraw = 1]

\* App::about_to_wait: the calls made
about_to_wait(app) ==
    IF app.some THEN [NoFx EXCEPT !.request_redraw = 1] ELSE NoFx

----------------------------------------------------------------------------
\* History variables

NoEvent == [kind |-> "-"]

\* Which arm called exit(): the close arm or the OutOfMemory arm
exit_cause(event) ==
    IF event.kind = "RedrawRequested" THEN "OutOfMemory" ELSE "close"

Call(name, event, outcome, r) ==
    [ call |-> name, event |-> event, outcome |-> outcome, route |-> r,
      window_id |-> 0,
      pre |-> [state |-> state, exiting |-> exiting] ]

----------------------------------------------------------------------------
\* The program

Init ==
    /\ platform \in Platforms
    /\ state = None
    /\ windows = 0
    /\ spawned = {}
    /\ proxy = <<>>
    /\ exiting = FALSE
    /\ loop = "running"
    /\ last = [ call |-> "new", event |-> NoEvent, outcome |-> "-", route |-> "-",
                window_id |-> 0,
                pre |-> [state |-> None, exiting |-> FALSE] ]
    /\ fx = NoFx
    /\ attached = 0
    /\ observed = None
    /\ resized = None
    /\ cause = "-"
    /\ surface_caps = None

\* What State::new may read for a window: its inner size and the surface's
\* capabilities; the ones with which State::new returns instead of panicking
NewInputs(target) ==
    {in \in [size : Sizes, caps : SurfaceCaps] :
        ~State_new_panics(target, in.size, in.caps)}

\* App::resumed, cfg(not(target_arch = "wasm32")): create the window,
\* block_on(State::new), then send_event(StateReady)
ResumedNative ==
    /\ loop = "running"
    /\ platform = "native"
    /\ windows < MaxResumed
    /\ windows' = windows + 1
    /\ \E size \in Sizes, caps \in SurfaceCaps :
         IF State_new_panics(platform, size, caps)
         THEN /\ loop' = "panicked"
              /\ proxy' = proxy
         ELSE /\ loop' = loop
              /\ proxy' = Append(proxy, windows + 1)
    /\ last' = Call("resumed", NoEvent, "-", "-")
    /\ fx' = NoFx
    /\ UNCHANGED <<platform, state, spawned, exiting, attached, observed, resized, cause, surface_caps>>

\* Faulty variant of the wasm32 resumed: waits for State::new inside the
\* handler, as the native branch does
ResumedWasm_blocks ==
    /\ loop = "running"
    /\ platform = "wasm32"
    /\ windows < MaxResumed
    /\ windows' = windows + 1
    /\ proxy' = Append(proxy, windows + 1)
    /\ last' = Call("resumed", NoEvent, "-", "-")
    /\ fx' = NoFx
    /\ UNCHANGED <<platform, state, spawned, exiting, loop, attached, observed, resized, cause, surface_caps>>

\* App::resumed, cfg(target_arch = "wasm32"): create the window,
\* spawn_local(State::new ...)
ResumedWasm ==
    /\ loop = "running"
    /\ platform = "wasm32"
    /\ windows < MaxResumed
    /\ windows' = windows + 1
    /\ spawned' = spawned \cup {windows + 1}
    /\ last' = Call("resumed", NoEvent, "-", "-")
    /\ fx' = NoFx
    /\ UNCHANGED <<platform, state, proxy, exiting, loop, attached, observed, resized, cause, surface_caps>>

\* wasm32: the spawned future finishes State::new and sends StateReady
StateFuture ==
    /\ loop = "running"
    /\ \E window \in spawned :
         /\ spawned' = spawned \ {window}
         /\ proxy' = Append(proxy, window)
    /\ last' = Call("future", NoEvent, "-", "-")
    /\ fx' = NoFx
    /\ UNCHANGED <<platform, state, windows, exiting, loop, attached, observed, resized, cause, surface_caps>>

\* The loop delivers the oldest StateReady to App::user_event.  The State
\* travels in the message untouched, so what State::new read for it is drawn
\* here, where the message is opened.
UserEvent ==
    /\ loop = "running"
    /\ proxy # <<>>
    /\ \E in \in NewInputs(platform) :
         /\ state' = user_event(state, State_new(platform, Head(proxy), in.size, in.caps))
         /\ observed' = IF Positive(in.size) THEN Some(in.size) ELSE None
         /\ surface_caps' = Some(in.caps)
    /\ proxy' = Tail(proxy)
    /\ attached' = attached + 1
    /\ resized' = None
    /\ last' = Call("user_event", NoEvent, "-", "-")
    /\ fx' = NoFx
    /\ UNCHANGED <<platform, windows, spawned, exiting, loop, cause>>

\* The loop delivers a window event to App::window_event
WindowEvent ==
    /\ loop = "running"
    /\ \E window_id \in 1..windows, event \in WindowEvents :
         \E outcome \in TextureOutcomes(state, window_id, event) :
            LET r == window_event(state, window_id, event, outcome)
                seen == /\ route(state, window_id, event) = "matched"
                        /\ event.kind = "Resized"
                        /\ Positive(event.size)
            IN  /\ state' = r.app
                /\ exiting' = (exiting \/ r.exit)
                /\ loop' = IF r.panic THEN "panicked" ELSE loop
                /\ fx' = r.fx
                /\ last' = [Call("window_event", event, outcome,
                                 route(state, window_id, event))
                              EXCEPT !.window_id = window_id]
                /\ observed' = IF seen THEN Some(event.size) ELSE observed
                /\ resized' = IF seen THEN Some(event.size) ELSE resized
                /\ cause' = IF r.exit /\ cause = "-" THEN exit_cause(event) ELSE cause
    /\ UNCHANGED <<platform, windows, spawned, proxy, attached, surface_caps>>

\* The loop calls App::about_to_wait
AboutToWait ==
    /\ loop = "running"
    /\ fx' = about_to_wait(state)
    /\ last' = Call("about_to_wait", NoEvent, "-", "-")
    /\ UNCHANGED <<platform, state, windows, spawned, proxy, exiting, loop,
                   attached, observed, resized, cause, surface_caps>>

\* run_app returns: the loop stops once exit() was called
LoopExit ==
    /\ loop = "running"
    /\ exiting
    /\ loop' = "exited"
    /\ last' = Call("exit", NoEvent, "-", "-")
    /\ fx' = NoFx
    /\ UNCHANGED <<platform, state, windows, spawned, proxy, exiting,
                   attached, observed, resized, cause, surface_caps>>

Next ==
    \/ ResumedNative
    \/ ResumedWasm
    \/ StateFuture
    \/ UserEvent
    \/ WindowEvent
    \/ AboutToWait
    \/ LoopExit

Spec == Init /\ [][Next]_vars

----------------------------------------------------------------------------
\* Vocabulary of the properties

\* The last handler call was window_event, it reached `match event`, and the
\* event was of this kind
Handled(kind) ==
    /\ last.call = "window_event"
    /\ last.route = "matched"
    /\ last.event.kind = kind

\* The controller was Active when the last handler was called
WasActive == last.pre.state.some /\ ~last.pre.exiting

\* The State the last handler started from (when one was attached)
Before == last.pre.state.val

\* What the spec calls the configuration state of a context
ConfigState(st) ==
    [ config |-> st.config, size |-> st.size, surface |-> st.surface,
      configured |-> st.surface_configured ]

SameDims(config, size) ==
    config.width = size.width /\ config.height = size.height

\* The last handler made no call on the GPU
NoGpuWork == fx.get_current_texture = 0 /\ fx.submit = 0 /\ fx.present = 0

----------------------------------------------------------------------------
\* C1: a Resized event with a zero width or height, handled with a context
\* attached, leaves the whole context (config, size, configured flag) as it
\* was and issues no surface.configure.
C1_ZeroResizeIgnored ==
    (Handled("Resized") /\ ~Positive(last.event.size))
        => /\ state = last.pre.state
           /\ fx.configure = <<>>

\* C2: a RedrawRequested handled while the surface has never been configured
\* is a no-op: no texture is acquired, nothing is submitted or presented, and
\* nothing else happens either.
C2_RedrawBeforeConfigureIsNoOp ==
    (Handled("RedrawRequested") /\ ~Before.surface.some)
        => /\ fx = NoFx
           /\ state = last.pre.state
           /\ exiting = last.pre.exiting
           /\ loop = "running"

\* C3: when render fails with Lost or Outdated while Active, the handler
\* issues exactly one surface.configure, at the stored size, requests no exit,
\* and the controller stays Active.
C3_LostOutdatedReconfigureOnce ==
    (Handled("RedrawRequested") /\ last.outcome \in {"Lost", "Outdated"} /\ WasActive)
        => /\ Len(fx.configure) = 1
           /\ SameDims(fx.configure[1], Before.size)
           /\ state.val.surface = Some(fx.configure[1])
           /\ fx.exit = 0
           /\ ~exiting
           /\ state.some
           /\ loop = "running"

C3_Witness ==
    Handled("RedrawRequested") /\ last.outcome = "Outdated" /\ WasActive

\* C4: OutOfMemory while Active requests exit (Active -> Terminating), and
\* no handler called after that acquires, submits or presents a frame.
C4_NoFrameAfterOutOfMemory ==
    /\ (Handled("RedrawRequested") /\ last.outcome = "OutOfMemory" /\ WasActive)
          => (exiting /\ fx.exit = 1)
    /\ (cause = "OutOfMemory" /\ last.pre.exiting) => NoGpuWork

\* C5: when render fails with Timeout while Active, the context is untouched,
\* no surface.configure and no exit is issued, and the controller stays
\* Active with the surface still marked configured, so that the next redraw
\* attempts a frame.
C5_TimeoutLeavesAllUntouched ==
    (Handled("RedrawRequested") /\ last.outcome = "Timeout" /\ WasActive)
        => /\ state = last.pre.state
           /\ fx.configure = <<>>
           /\ fx.exit = 0
           /\ ~exiting
           /\ loop = "running"
           /\ state.val.surface_configured
           /\ TextureOutcomes(state, state.val.window, [kind |-> "RedrawRequested"]) # {"-"}

C5_Witness ==
    Handled("RedrawRequested") /\ last.outcome = "Timeout" /\ WasActive

\* C6: with a context attached, config.width/height equal the most recently
\* observed nonzero window size (the size read at construction being the
\* first observation), and so are never zero.
C6_ConfigIsLastNonzeroSize ==
    state.some
        => /\ observed.some
           /\ SameDims(state.val.config, observed.val)
           /\ state.val.config.width > 0
           /\ state.val.config.height > 0

\* C7: a positive Resized event handled while Active reconfigures the surface
\* with exactly its dimensions before any frame is acquired or submitted, and
\* every frame rendered from then on (until the next positive resize) is
\* rendered against a surface configured with those dimensions.
C7_FramesUseResizedDims ==
    /\ (Handled("Resized") /\ Positive(last.event.size) /\ WasActive)
          => /\ NoGpuWork
             /\ Len(fx.configure) = 1
             /\ SameDims(fx.configure[1], last.event.size)
             /\ state.val.surface = Some(fx.configure[1])
    /\ (Handled("RedrawRequested") /\ fx.get_current_texture = 1 /\ resized.some)
          => /\ Before.surface.some
             /\ SameDims(Before.surface.val, resized.val)
             /\ state.val.surface.some
             /\ SameDims(state.val.surface.val, resized.val)

C7_Witness ==
    /\ Handled("RedrawRequested")
    /\ fx.submit = 1
    /\ resized.some
    /\ WasActive

\* C8: resize is idempotent on the configuration: from every context state
\* and for every positive size, resizing twice gives the configuration state
\* that resizing once gives (the same through the Resized arm, which also sets
\* the configured flag).
C8_ResizeIdempotent ==
    state.some =>
        \A sz \in {z \in Sizes : Positive(z)} :
            LET once == resize(state.val, sz).st
                twice == resize(once, sz).st
                arm1 == resized_arm(state.val, sz).st
                arm2 == resized_arm(arm1, sz).st
            IN  /\ ConfigState(twice) = ConfigState(once)
                /\ ConfigState(arm2) = ConfigState(arm1)
                /\ (Handled("Resized") /\ last.event.size = sz /\ Before.size = sz
                        /\ Before.surface.some /\ Before.surface_configured)
                      => ConfigState(state.val) = ConfigState(Before)

C8_Witness ==
    /\ Handled("Resized")
    /\ Positive(last.event.size)
    /\ Before.size = last.event.size
    /\ Before.surface.some

\* C9: a State is attached exactly once per run: user_event never stores a
\* State over one that is already attached.
C9_AttachedExactlyOnce ==
    /\ attached <= 1
    /\ (last.call = "user_event") => ~last.pre.state.some

\* C10: once exit has been requested, no handler changes the context, calls
\* surface.configure, requests a redraw, does GPU work, or clears the request.
C10_TerminatingIsAbsorbing ==
    (last.pre.exiting /\ last.call \in {"window_event", "user_event", "about_to_wait"})
        => /\ state = last.pre.state
           /\ fx = NoFx
           /\ exiting

----------------------------------------------------------------------------
\* C11: while Active, a CloseRequested or a press of Escape addressed to the
\* controller's window requests exit and neither resizes nor renders; a
\* release of Escape, or any event of another key, requests no exit.
C11_CloseAndEscapePressExit ==
    /\ (/\ last.call = "window_event"
        /\ last.route = "matched"
        /\ WasActive
        /\ \/ last.event = [kind |-> "CloseRequested"]
           \/ last.event = [kind |-> "KeyboardInput", physical_key |-> "Escape",
                            state |-> "Pressed"])
          => /\ exiting
             /\ fx = [NoFx EXCEPT !.exit = 1]
             /\ state = last.pre.state
    /\ (/\ Handled("KeyboardInput")
        /\ WasActive
        /\ (last.event.state = "Released" \/ last.event.physical_key # "Escape"))
          => /\ ~exiting
             /\ fx = NoFx
             /\ state = last.pre.state

C11_Witness ==
    /\ Handled("KeyboardInput")
    /\ WasActive
    /\ last.event.physical_key = "Escape"
    /\ last.event.state = "Pressed"
    /\ exiting

----------------------------------------------------------------------------
\* A State gets into App.state only by a delivered StateReady
AttachedOnlyByStateReady ==
    (state.some /\ (~last.pre.state.some \/ Before.window # state.val.window))
        => last.call = "user_event"

\* C12 (as claimed): construction never stalls the loop: when `resumed`
\* returns, State::new has not been waited for (it is still under way), and
\* the State reaches the controller only through StateReady.
C12_ConstructionNeverStallsLoop ==
    /\ (last.call = "resumed" /\ loop = "running") => windows \in spawned
    /\ AttachedOnlyByStateReady

\* C12 (amended): on wasm32 `resumed` returns with State::new still under way
\* and the loop goes on dispatching; on native `resumed` returns only when
\* State::new has finished and StateReady is sent.  In both builds the State
\* reaches the controller only through StateReady.
C12_ConstructionOffLoopOnWasmOnly ==
    /\ (last.call = "resumed" /\ platform = "wasm32")
          => /\ windows \in spawned
             /\ loop = "running"
             /\ state = last.pre.state
    /\ (last.call = "resumed" /\ platform = "native" /\ loop = "running")
          => /\ spawned = {}
             /\ proxy # <<>>
             /\ proxy[Len(proxy)] = windows
             /\ state = last.pre.state
    /\ AttachedOnlyByStateReady

\* a window event is dispatched while a State::new is under way
C12_Witness ==
    /\ platform = "wasm32"
    /\ last.call = "window_event"
    /\ spawned # {}

----------------------------------------------------------------------------
\* C13 (as claimed): every about_to_wait requests a redraw, whether or not a
\* context is attached.
C13_IdleAlwaysRequestsRedraw ==
    (last.call = "about_to_wait") => fx.request_redraw = 1

\* C13 (amended): every about_to_wait requests a redraw exactly when a
\* context is attached, whatever the configured flag and the outcome of the
\* previous frame; it does nothing else.
C13_IdleRequestsRedrawIfAttached ==
    (last.call = "about_to_wait")
        => /\ fx.request_redraw = (IF last.pre.state.some THEN 1 ELSE 0)
           /\ [fx EXCEPT !.request_redraw = 0] = NoFx
           /\ state = last.pre.state
           /\ exiting = last.pre.exiting

\* a redraw is requested for a context whose surface is not marked configured
C13_Witness ==
    /\ last.call = "about_to_wait"
    /\ state.some
    /\ ~state.val.surface_configured
    /\ fx.request_redraw = 1

----------------------------------------------------------------------------
\* C14: a Resized event with positive dimensions is the only handled event
\* that changes config.width, config.height or the stored size: every other
\* window event (RedrawRequested with any outcome, close/Escape, other keys,
\* other window events, a zero-sized Resized) and the idle notification leave
\* them exactly as they were.
C14_OnlyPositiveResizeChangesDims ==
    ( /\ last.call \in {"window_event", "about_to_wait"}
      /\ last.pre.state.some
      /\ ~(Handled("Resized") /\ Positive(last.event.size)) )
        => /\ state.some
           /\ state.val.size = Before.size
           /\ SameDims(state.val.config, Before.config)

\* a frame lost on a context of unequal width and height, whose
\* reconfiguration would show an exchange of the two
C14_Witness ==
    /\ Handled("RedrawRequested")
    /\ last.outcome \in {"Lost", "Outdated"}
    /\ Before.size.width # Before.size.height
    /\ Positive(Before.size)
    /\ fx.configure # <<>>

----------------------------------------------------------------------------
\* C15: a frame is rendered in the order acquire, submit, present, with
\* exactly one command buffer submitted for a frame that was acquired; when
\* the acquisition fails nothing is submitted and nothing is presented; and
\* frames do not overlap: a handler acquires at most once and every acquired
\* frame is submitted before the handler returns, hence before the next
\* acquisition.
C15_AcquireSubmitPresentInOrder ==
    /\ fx.get_current_texture <= 1
    /\ (fx.get_current_texture = 1 /\ last.outcome = "Ok")
         => /\ fx.order = <<"get_current_texture", "submit", "present">>
            /\ fx.submit = 1
            /\ fx.present = 1
    /\ (fx.get_current_texture = 1 /\ last.outcome # "Ok")
         => /\ fx.order = <<"get_current_texture">>
            /\ fx.submit = 0
            /\ fx.present = 0
    /\ (fx.get_current_texture = 0)
         => fx.order = <<>> /\ fx.submit = 0 /\ fx.present = 0

\* a frame acquired, submitted and presented before any exit was requested
C15_Witness ==
    /\ Handled("RedrawRequested")
    /\ last.outcome = "Ok"
    /\ fx.present = 1
    /\ cause = "-"

----------------------------------------------------------------------------
\* C16: handling one RedrawRequested event calls State::render at most once,
\* whatever the outcome: after Lost, Outdated or Timeout the frame is not
\* tried again within the event (one acquisition, nothing submitted or
\* presented), and a frame is only ever attempted while a RedrawRequested
\* event is handled.
C16_OneRenderPerRedrawRequested ==
    /\ Handled("RedrawRequested") => fx.get_current_texture <= 1
    /\ (Handled("RedrawRequested") /\ last.outcome \in {"Lost", "Outdated", "Timeout"})
         => /\ fx.get_current_texture = 1
            /\ fx.submit = 0
            /\ fx.present = 0
    /\ ~Handled("RedrawRequested") => NoGpuWork

\* a frame dropped on Lost or Outdated, the surface reconfigured, and the
\* event over
C16_Witness ==
    /\ Handled("RedrawRequested")
    /\ last.outcome \in {"Lost", "Outdated"}
    /\ fx.configure # <<>>
    /\ fx.get_current_texture = 1
    /\ ~exiting

----------------------------------------------------------------------------
\* C17: the context handed over at the end of construction has, on native,
\* the derived configuration applied to the surface (with the window's size)
\* and the configured flag set; on wasm32 it has no configuration applied and
\* the flag clear, and the flag of an attached context goes from clear to set
\* only while a Resized event is handled.
C17_ConfiguredAtConstructionOrFirstResize ==
    /\ (last.call = "user_event" /\ platform = "native")
         => /\ state.some
            /\ state.val.surface = Some(state.val.config)
            /\ SameDims(state.val.config, state.val.size)
            /\ state.val.surface_configured
    /\ (last.call = "user_event" /\ platform = "wasm32")
         => /\ state.some
            /\ state.val.surface = None
            /\ ~state.val.surface_configured
    /\ ( /\ last.pre.state.some
         /\ ~Before.surface_configured
         /\ state.some
         /\ state.val.surface_configured )
         => Handled("Resized")

\* wasm32: the first Resized event sets the flag that construction left clear
C17_Witness ==
    /\ platform = "wasm32"
    /\ Handled("Resized")
    /\ ~Before.surface_configured
    /\ Before.surface = None
    /\ state.val.surface_configured

----------------------------------------------------------------------------
\* State::new alone, over every capability report of up to MaxFormats formats

CapsInit ==
    /\ platform \in Platforms
    /\ surface_caps \in {Some(c) : c \in AllSurfaceCaps}
    /\ state = None
    /\ windows = 1
    /\ spawned = {}
    /\ proxy = <<>>
    /\ exiting = FALSE
    /\ loop = "running"
    /\ last = [ call |-> "new", event |-> NoEvent, outcome |-> "-", route |-> "-",
                window_id |-> 0,
                pre |-> [state |-> None, exiting |-> FALSE] ]
    /\ fx = NoFx
    /\ attached = 0
    /\ observed = None
    /\ resized = None
    /\ cause = "-"

\* State::new(window) with the adapter reporting surface_caps, then
\* App::user_event storing the result
NewState ==
    /\ state = None
    /\ \E size \in Sizes :
         /\ ~State_new_panics(platform, size, surface_caps.val)
         /\ state' = user_event(state, State_new(platform, windows, size, surface_caps.val))
    /\ attached' = attached + 1
    /\ last' = Call("user_event", NoEvent, "-", "-")
    /\ UNCHANGED <<platform, windows, spawned, proxy, exiting, loop, fx,
                   observed, resized, cause, surface_caps>>

CapsNext == NewState

CapsSpec == CapsInit /\ [][CapsNext]_vars

\* The first sRGB format of a list, found by position: the entry at the
\* least index that holds an sRGB format, or the first entry when none does
FirstSrgbOrFirst(formats) ==
    LET at == {i \in 1..Len(formats) : is_srgb(formats[i])}
    IN  IF at = {} THEN formats[1]
        ELSE formats[CHOOSE i \in at : \A j \in at : i <= j]

\* C18: for every non-empty list of reported formats, the format of the
\* configuration State::new builds is the first sRGB format of the list if
\* there is one and the first format otherwise; its present mode and alpha
\* mode are the first entries of their lists.
C18_FirstSrgbFormatElseFirst ==
    state.some
        => /\ state.val.config.format = FirstSrgbOrFirst(surface_caps.val.formats)
           /\ state.val.config.present_mode = surface_caps.val.present_modes[1]
           /\ state.val.config.alpha_mode = surface_caps.val.alpha_modes[1]

\* a report with two different sRGB formats after a non-sRGB one
C18_Witness ==
    /\ state.some
    /\ Len(surface_caps.val.formats) = 3
    /\ ~is_srgb(surface_caps.val.formats[1])
    /\ is_srgb(surface_caps.val.formats[2])
    /\ is_srgb(surface_caps.val.formats[3])
    /\ surface_caps.val.formats[2] # surface_caps.val.formats[3]
    /\ state.val.config.format = surface_caps.val.formats[2]
    /\ Len(surface_caps.val.present_modes) = 2

----------------------------------------------------------------------------
\* C19: while no context is attached every window event, CloseRequested and
\* an Escape press included, is discarded: no exit is requested, nothing is
\* configured or rendered, and the idle notification requests no redraw; the
\* context that arrives later is the one State::new built, untouched by the
\* discarded events, and its arrival requests no exit and makes no call.
C19_UninitializedDiscardsEvents ==
    /\ (last.call \in {"window_event", "about_to_wait"} /\ ~last.pre.state.some)
         => /\ state = None
            /\ fx = NoFx
            /\ exiting = last.pre.exiting
            /\ loop = "running"
    /\ (last.call = "user_event" /\ ~last.pre.state.some)
         => /\ fx = NoFx
            /\ exiting = last.pre.exiting
            /\ \E size \in Sizes :
                 state = Some(State_new(platform, state.val.window, size,
                                        surface_caps.val))

\* a CloseRequested discarded before any context was attached
C19_Witness ==
    /\ last.call = "window_event"
    /\ last.route = "none"
    /\ last.event.kind = "CloseRequested"
    /\ ~exiting
    /\ attached = 0

----------------------------------------------------------------------------
\* C20: whenever a context is attached its stored size equals the dimensions
\* in its configuration, so the reconfiguration after Lost or Outdated
\* (resize at the stored size) is issued with the dimensions config already
\* had.
C20_SizeEqualsConfigDims ==
    /\ state.some => SameDims(state.val.config, state.val.size)
    /\ (Handled("RedrawRequested") /\ last.outcome \in {"Lost", "Outdated"})
         => \A i \in 1..Len(fx.configure) :
               /\ SameDims(fx.configure[i], Before.config)
               /\ SameDims(fx.configure[i], Before.size)

\* a frame lost after the window was resized to a new height
C20_Witness ==
    /\ Handled("RedrawRequested")
    /\ last.outcome \in {"Lost", "Outdated"}
    /\ fx.configure # <<>>
    /\ resized.some
    /\ observed.some
    /\ state.val.size = resized.val
    /\ state.val.size.height = 2

----------------------------------------------------------------------------
\* C21: the configured flag of an attached context never goes back: when it
\* is set before a window event or an idle notification is handled (a Resized
\* of any size, a RedrawRequested with any outcome, a close request, ...), it
\* is set afterwards.
C21_ConfiguredFlagMonotonic ==
    ( /\ last.call \in {"window_event", "about_to_wait"}
      /\ last.pre.state.some
      /\ Before.surface_configured )
        => /\ state.some
           /\ state.val.window = Before.window
           /\ state.val.surface_configured

\* a zero-sized Resized handled by a context whose flag was already set
C21_Witness ==
    /\ Handled("Resized")
    /\ ~Positive(last.event.size)
    /\ Before.surface_configured
    /\ state.val.surface_configured

----------------------------------------------------------------------------
\* C22: a window event carrying the id of a window other than the attached
\* context's changes nothing, whatever the event (CloseRequested, Resized and
\* RedrawRequested included): the context is left as it was, no exit is
\* requested and no call is made on the surface, the queue or the window.
C22_ForeignWindowEventIsNoOp ==
    ( /\ last.call = "window_event"
      /\ last.pre.state.some
      /\ last.window_id # Before.window )
        => /\ state = last.pre.state
           /\ exiting = last.pre.exiting
           /\ fx = NoFx
           /\ loop = "running"

\* a CloseRequested for another window reaches an Active controller and the
\* loop goes on
C22_Witness ==
    /\ last.call = "window_event"
    /\ last.event.kind = "CloseRequested"
    /\ state.some
    /\ last.pre.state.some
    /\ last.window_id # state.val.window
    /\ state.val.surface_configured
    /\ ~exiting

----------------------------------------------------------------------------
\* The last call was window_event with the attached context's own window id
OwnWindowEvent ==
    /\ last.call = "window_event"
    /\ last.pre.state.some
    /\ last.window_id = Before.window

\* The events the match of window_event has an arm for
HasArm(event) ==
    \/ event.kind \in {"CloseRequested", "Resized", "RedrawRequested"}
    \/ /\ event.kind = "KeyboardInput"
       /\ event.physical_key = "Escape"
       /\ event.state = "Pressed"

\* C23: while Active, the input hook reports every event as unhandled, so a
\* close request, a resize or a redraw for the context's window always
\* reaches its arm (a close request asks for exit); and any event other than
\* a close request, an Escape press, Resized and RedrawRequested leaves the
\* context, the configured flag and the controller as they were, with no call
\* on the GPU, the loop or the window.
C23_OtherEventsIgnored ==
    /\ OwnWindowEvent => last.route = "matched"
    /\ (OwnWindowEvent /\ last.event.kind = "CloseRequested")
         => exiting /\ fx.exit = 1
    /\ (OwnWindowEvent /\ WasActive /\ ~HasArm(last.event))
         => /\ state = last.pre.state
            /\ exiting = last.pre.exiting
            /\ fx = NoFx
            /\ loop = "running"

\* a Focused event handled while Active with the surface configured
C23_Witness ==
    /\ OwnWindowEvent
    /\ WasActive
    /\ last.event.kind = "Focused"
    /\ state.val.surface_configured
    /\ ~exiting

====
